---- MODULE Spec2Model ----
(***************************************************************************)
(* Model of github.com/alaingilbert/cache: a generic in-process key/value  *)
(* store with per-entry expiration (cache.go, item.go) built on a          *)
(* RWMutex-guarded map (internal/mtx/mtx.go), with a background cleanup    *)
(* goroutine (autoCleanup).                                                *)
(*                                                                         *)
(* Time is counted in abstract ticks; clock is what c.clock.Now() returns  *)
(* (as UnixNano).  Every RWMtx scope (With / RWith) is one atomic step;    *)
(* the clock reads that the code performs outside the scopes are steps of  *)
(* their own, so that other goroutines and the clock interleave exactly    *)
(* where the code allows it.                                               *)
(***************************************************************************)
EXTENDS Integers, FiniteSets, TLC

\* ------------------------------------------------------------------ bounds
MaxClock == 4
NumProcs == 2
NumKeys == 2
NumValues == 2
MaxTTL == 2

Procs == 1..NumProcs
Keys == 1..NumKeys
Values == 1..NumValues
Durations == 1..MaxTTL

\* ------------------------------------------------------- program constants
\* durations are counted in ticks of ten minutes: 10 * time.Minute is 1 tick
DefaultCleanupInterval == 1
NoExpiration == -1
DefaultExpiration == 0

\* the zero value of V returned by reads that find nothing
ZeroValue == 0

\* time.Time{} and time.Unix(0, n)
ZeroTime == [isZero |-> TRUE, unixNano |-> 0]
TimeUnix(n) == [isZero |-> FALSE, unixNano |-> n]

ErrNil == "nil"
ErrItemAlreadyExists == "item already exists"
ErrItemNotFound == "item does not exists"

\* per-call item options (ItemOption): none, NoExpire, ExpireIn(d), ExpireAt(t)
OptNone == [kind |-> "none", arg |-> 0]
OptNoExpire == [kind |-> "NoExpire", arg |-> 0]
OptExpireIn(d) == [kind |-> "ExpireIn", arg |-> d]
OptExpireAt(t) == [kind |-> "ExpireAt", arg |-> t]
ItemOptions ==
    {OptNone, OptNoExpire} \cup {OptExpireIn(d) : d \in Durations}
        \cup {OptExpireAt(t) : t \in 1..MaxClock}

VARIABLES
    items,              \* Cache.items: the guarded map K -> Item
    clock,              \* c.clock.Now().UnixNano()
    defaultExpiration,  \* Cache.defaultExpiration
    config,             \* the options New() was given and the context they select
    mtx,                \* the RWMutex of the guarded map: [writer, readers]
    listener,           \* a goroutine receiving from the cleanupEvent channel
    ctxDone,            \* c.ctx is cancelled
    reaper,             \* the autoCleanup goroutine: [pc, deadline, now]
    cleanupInterval,    \* the interval autoCleanup was started with
    pc,                 \* per caller: position inside the current call
    call,               \* per caller: the current (or last) call [op, k, v, opt]
    loc,                \* per caller: locals [now, d, e]
    res                 \* per caller: result of the last completed call

vars == <<items, clock, defaultExpiration, config, mtx, listener, ctxDone, reaper, cleanupInterval,
          pc, call, loc, res>>

\* ------------------------------------------------------------- item.go
Item(v, e) == [value |-> v, expiration |-> e]

\* faulty variants of isExpired: the comparison reversed; the sign test
\* dropped; the deadline instant itself counted as expired
isExpired_Reversed(item, ts) == item.expiration > 0 /\ item.expiration > ts

isExpired_NoSentinel(item, ts) == item.expiration < ts

isExpired_Inclusive(item, ts) == item.expiration > 0 /\ item.expiration <= ts

isExpired(item, ts) == item.expiration > 0 /\ item.expiration < ts

Expiration(item) == TimeUnix(item.expiration)

\* ------------------------------------------------------- internal/utils
\* faulty variant of Or: the fallback is never used
Or_First(a, b) == a

Or(a, b) == IF a # 0 THEN a ELSE b

\* --------------------------------------------------- internal/mtx RWMtxMap
\* faulty variant of Store: an existing entry keeps its expiration and takes
\* the new value only
Store_KeepsExpiration(m, k, v) ==
    [x \in DOMAIN m \cup {k} |->
        IF x # k THEN m[x]
        ELSE IF k \in DOMAIN m THEN [v EXCEPT !.expiration = m[k].expiration] ELSE v]

\* faulty variant of Store: an existing entry is kept
Store_IfAbsent(m, k, v) == [x \in DOMAIN m \cup {k} |-> IF x \in DOMAIN m THEN m[x] ELSE v]

Store(m, k, v) == [x \in DOMAIN m \cup {k} |-> IF x = k THEN v ELSE m[x]]

Load(m, k) ==
    IF k \in DOMAIN m THEN [out |-> m[k], ok |-> TRUE]
    ELSE [out |-> Item(ZeroValue, 0), ok |-> FALSE]

\* faulty variant of Delete: the whole map is emptied
Delete_Everything(m, k) == [x \in {} |-> m[x]]
Delete(m, k) == [x \in DOMAIN m \ {k} |-> m[x]]

\* faulty variant of Len: only the entries that are live now are counted
Len_LiveNow(m) == Cardinality({k \in DOMAIN m : ~isExpired(m[k], clock)})
Len(m) == Cardinality(DOMAIN m)

\* faulty variants of Clear: permanent entries are kept; nothing is removed
Clear_KeepsPermanent(m) == [x \in {y \in DOMAIN m : m[y].expiration <= 0} |-> m[x]]

Clear_Nothing(m) == m
Clear(m) == [x \in {} |-> Item(ZeroValue, 0)]

EmptyMap == [x \in {} |-> Item(ZeroValue, 0)]

\* ------------------------------------------------- internal/mtx RWMtx
\* sync.RWMutex: the goroutine holding the write lock (0: none) and the
\* goroutines holding the read lock
NewRWMtx == [writer |-> 0, readers |-> {}]

\* faulty variant of canLock: the write lock is granted while readers hold
\* the read lock
canLock_IgnoresReaders(m) == m.writer = 0

\* sync.RWMutex.Lock returns once no goroutine holds the lock in either mode
canLock(m) == m.writer = 0 /\ m.readers = {}

\* faulty variant of canRLock: the read lock is granted while a writer holds
\* the lock
canRLock_Always(m) == TRUE

\* sync.RWMutex.RLock returns once no goroutine holds the write lock
canRLock(m) == m.writer = 0

Lock(m, p) == [m EXCEPT !.writer = p]

Unlock(m, p) == [m EXCEPT !.writer = 0]

RLock(m, p) == [m EXCEPT !.readers = @ \cup {p}]

RUnlock(m, p) == [m EXCEPT !.readers = @ \ {p}]

\* the callback handed to WithE / RWithE, by the error it returns
ErrFail == "fail"
ClbReturns(e) == [kind |-> "clb", arg |-> e]
ClbError(opt) == IF opt.arg = 0 THEN ErrNil ELSE ErrFail

\* ------------------------------------------------------------- cache.go
\* faulty variant of getWithExpiration: the deadline instant itself counts as expired
getWithExpiration_Inclusive(m, now, k) ==
    IF k \notin DOMAIN m \/ (m[k].expiration > 0 /\ m[k].expiration <= now)
    THEN [value |-> ZeroValue, expiration |-> ZeroTime, found |-> FALSE]
    ELSE [value |-> m[k].value,
          expiration |-> IF m[k].expiration > 0 THEN TimeUnix(m[k].expiration) ELSE ZeroTime,
          found |-> TRUE]

\* faulty variant of getWithExpiration: the stored expiration is converted
\* for permanent entries too
getWithExpiration_RawExpiration(m, now, k) ==
    IF k \notin DOMAIN m \/ (m[k].expiration > 0 /\ m[k].expiration < now)
    THEN [value |-> ZeroValue, expiration |-> ZeroTime, found |-> FALSE]
    ELSE [value |-> m[k].value, expiration |-> TimeUnix(m[k].expiration), found |-> TRUE]

\* getWithExpiration with the clock value the call read before loading
getWithExpiration(m, now, k) ==
    LET l == Load(m, k) IN
    IF ~l.ok THEN [value |-> ZeroValue, expiration |-> ZeroTime, found |-> FALSE]
    ELSE IF l.out.expiration > 0 /\ l.out.expiration < now
         THEN [value |-> ZeroValue, expiration |-> ZeroTime, found |-> FALSE]
    ELSE [value |-> l.out.value,
          expiration |-> IF l.out.expiration > 0 THEN Expiration(l.out) ELSE ZeroTime,
          found |-> TRUE]

get(m, now, k) ==
    LET r == getWithExpiration(m, now, k) IN [value |-> r.value, found |-> r.found]

\* faulty variant of has: an entry is found again once its deadline lies more
\* than one tick back
has_FoundAgain(m, now, k) ==
    get(m, now, k).found \/ (k \in DOMAIN m /\ now > m[k].expiration + 1)

has(m, now, k) == get(m, now, k).found

\* ApplyOptions on ItemConfig{clock: c.clock}: the resulting cfg.d
ApplyOptions(opt, now) ==
    CASE opt.kind = "none" -> 0
      [] opt.kind = "NoExpire" -> NoExpiration
      [] opt.kind = "ExpireIn" -> opt.arg
      [] opt.kind = "ExpireAt" -> opt.arg - now

\* faulty variant of setExpiration: the per-call duration is ignored
setExpiration_DefaultOnly(cfgd, dflt, now) ==
    IF dflt # NoExpiration THEN now + dflt ELSE NoExpiration

\* faulty variant of setExpiration: a duration of zero is stored as permanent
setExpiration_ZeroPermanent(cfgd, dflt, now) ==
    LET d == Or(cfgd, dflt) IN
    IF d # NoExpiration /\ d # 0 THEN now + d ELSE NoExpiration

\* the expiration set() stores for cfg.d, read at clock value now
setExpiration(cfgd, dflt, now) ==
    LET d == Or(cfgd, dflt) IN
    IF d # NoExpiration THEN now + d ELSE NoExpiration

\* faulty variant of deleteExpiredMap: the sweep also removes the entries that
\* expire within the next default TTL
deleteExpiredMap_Ahead(m, now) ==
    [y \in {x \in DOMAIN m : ~isExpired(m[x], now + MaxTTL)} |-> m[y]]

\* faulty variant of deleteExpiredMap: the deadline instant itself is swept
deleteExpiredMap_Inclusive(m, now) ==
    [x \in {y \in DOMAIN m : ~(m[y].expiration > 0 /\ m[y].expiration <= now)} |-> m[x]]

\* faulty variant of deleteExpiredMap: permanent entries are swept as well
deleteExpiredMap_NoSentinel(m, now) ==
    [x \in {y \in DOMAIN m : ~(m[y].expiration < now)} |-> m[x]]

\* deleteExpired(): the entries that are not expired at now are kept
deleteExpiredMap(m, now) ==
    [x \in {y \in DOMAIN m : ~isExpired(m[y], now)} |-> m[x]]

\* faulty variant of getItemsMap: expired entries are copied as well
getItemsMap_All(m, now) == m
getItemsMap(m, now) ==
    [x \in {y \in DOMAIN m : ~isExpired(m[y], now)} |-> m[x]]

\* ------------------------------------------------------------ state
NoCall == [op |-> "none", k |-> 0, v |-> ZeroValue, opt |-> OptNone]
NoLoc == [now |-> 0, d |-> 0, e |-> 0]
NoRes == [op |-> "none", k |-> 0, v |-> ZeroValue, opt |-> OptNone,
          err |-> "none", value |-> ZeroValue, found |-> FALSE,
          expiration |-> ZeroTime, n |-> 0, out |-> EmptyMap]

\* the result record of a call that has returned
Result(c, r) == [r EXCEPT !.op = c.op, !.k = c.k, !.v = c.v, !.opt = c.opt]

\* faulty variant of newCleanupInterval: no default is substituted
newCleanupInterval_NoDefault(x) == x

\* Config.CleanupInterval(x) and utils.Default in newCache: 0 leaves the default
newCleanupInterval(x) == IF x # 0 THEN x ELSE DefaultCleanupInterval

\* newCache: the goroutine is started only for a positive interval
newReaper(interval) ==
    IF interval > 0 THEN [pc |-> "start", deadline |-> 0, now |-> 0]
    ELSE [pc |-> "off", deadline |-> 0, now |-> 0]

\* the options of New(): CleanupInterval(d) given or not; WithContext given
\* with a nil context, with a context of the caller, or not given
CleanupNotGiven == [given |-> FALSE, d |-> 0]
CleanupGiven(d) == [given |-> TRUE, d |-> d]

\* Config.WithContext on a Config whose ctx is cur: a nil context is ignored
ConfigWithContext(cur, ctx) == IF ctx # "nil" THEN ctx ELSE cur

\* newCache: cfg.ctx = utils.Or(cfg.ctx, context.Background())
ctxParent(cfgctx) == IF cfgctx # "nil" THEN cfgctx ELSE "Background"

\* BuildConfig starts from the zero Config (ctx nil) and applies the options
newConfig(co, xo) ==
    [cleanup |-> co, ctx |-> xo,
     parent |-> ctxParent(IF xo = "absent" THEN "nil" ELSE ConfigWithContext("nil", xo))]

\* New(defaultExpiration, WithClock(clock), WithContext(ctx)) with a clock that
\* reads 1
Init ==
    /\ items = EmptyMap
    /\ clock = 1
    /\ defaultExpiration = MaxTTL
    /\ config = newConfig(CleanupNotGiven, "user")
    /\ mtx = NewRWMtx
    /\ listener = "none"
    /\ ctxDone = FALSE
    /\ cleanupInterval = newCleanupInterval(0)
    /\ reaper = newReaper(newCleanupInterval(0))
    /\ pc = [p \in Procs |-> "idle"]
    /\ call = [p \in Procs |-> NoCall]
    /\ loc = [p \in Procs |-> NoLoc]
    /\ res = [p \in Procs |-> NoRes]

\* a call that needs several steps starts
Begin(p, op, k, v, opt, next, l) ==
    /\ pc[p] = "idle"
    /\ pc' = [pc EXCEPT ![p] = next]
    /\ call' = [call EXCEPT ![p] = [op |-> op, k |-> k, v |-> v, opt |-> opt]]
    /\ loc' = [loc EXCEPT ![p] = l]
    /\ res' = [res EXCEPT ![p] = NoRes]

\* a call returns
Return(p, r) ==
    /\ pc' = [pc EXCEPT ![p] = "idle"]
    /\ call' = [call EXCEPT ![p] = NoCall]
    /\ loc' = [loc EXCEPT ![p] = NoLoc]
    /\ res' = [res EXCEPT ![p] = Result(call[p], r)]

\* a call that is a single scope starts and returns
Single(p, op, k, r) ==
    /\ pc[p] = "idle"
    /\ res' = [res EXCEPT ![p] = [r EXCEPT !.op = op, !.k = k]]
    /\ UNCHANGED <<pc, call, loc>>

\* the clock moves
Advance ==
    /\ clock < MaxClock
    /\ clock' = clock + 1
    /\ UNCHANGED <<items, defaultExpiration, config, mtx, listener, ctxDone, reaper, cleanupInterval,
                   pc, call, loc, res>>

\* faulty variant of GetLoad: a read that finds the entry expired evicts it
GetLoad_Evicts(p) ==
    /\ pc[p] = "get_load"
    /\ LET r == getWithExpiration(items, loc[p].now, call[p].k) IN
       /\ Return(p, [NoRes EXCEPT !.err = ErrNil, !.value = r.value,
                                  !.found = r.found, !.expiration = r.expiration])
       /\ items' = IF r.found THEN items ELSE Delete(items, call[p].k)
    /\ UNCHANGED <<clock, defaultExpiration, config, mtx, listener, ctxDone, reaper, cleanupInterval>>

\* Get / Has / GetWithExpiration: nowNano(), then items.Load under RLock
GetCall(p, k) ==
    /\ Begin(p, "GetWithExpiration", k, ZeroValue, OptNone, "get_load",
             [NoLoc EXCEPT !.now = clock])
    /\ UNCHANGED <<items, clock, defaultExpiration, config, mtx, listener, ctxDone, reaper, cleanupInterval>>

GetLoad(p) ==
    /\ pc[p] = "get_load"
    /\ LET r == getWithExpiration(items, loc[p].now, call[p].k) IN
       Return(p, [NoRes EXCEPT !.err = ErrNil, !.value = r.value,
                               !.found = r.found, !.expiration = r.expiration])
    /\ UNCHANGED <<items, clock, defaultExpiration, config, mtx, listener, ctxDone, reaper, cleanupInterval>>

\* set(): ApplyOptions (ExpireAt reads the clock)
SetOpts(p) ==
    /\ pc[p] = "set_opts"
    /\ pc' = [pc EXCEPT ![p] = "set_now"]
    /\ loc' = [loc EXCEPT ![p] = [NoLoc EXCEPT !.d = ApplyOptions(call[p].opt, clock)]]
    /\ UNCHANGED <<items, clock, defaultExpiration, config, mtx, listener, ctxDone, reaper, cleanupInterval,
                   call, res>>

\* set(): d := Or(cfg.d, defaultExpiration); e from c.now()
SetNow(p) ==
    /\ pc[p] = "set_now"
    /\ pc' = [pc EXCEPT ![p] = "set_store"]
    /\ loc' = [loc EXCEPT ![p].now = clock,
                          ![p].e = setExpiration(loc[p].d, defaultExpiration, clock)]
    /\ UNCHANGED <<items, clock, defaultExpiration, config, mtx, listener, ctxDone, reaper, cleanupInterval,
                   call, res>>

\* set(): c.items.Store(k, Item{value: v, expiration: e}); Set, Add and Replace
\* all return from here (Add and Replace with a nil error)
SetStore(p) ==
    /\ pc[p] = "set_store"
    /\ items' = Store(items, call[p].k, Item(call[p].v, loc[p].e))
    /\ Return(p, [NoRes EXCEPT !.err = ErrNil])
    /\ UNCHANGED <<clock, defaultExpiration, config, mtx, listener, ctxDone, reaper, cleanupInterval>>

SetCall(p, k, v, opt) ==
    /\ Begin(p, "Set", k, v, opt, "set_opts", NoLoc)
    /\ UNCHANGED <<items, clock, defaultExpiration, config, mtx, listener, ctxDone, reaper, cleanupInterval>>

\* add(): c.has(k) reads the clock, then loads under RLock
AddCall(p, k, v, opt) ==
    /\ Begin(p, "Add", k, v, opt, "add_load", [NoLoc EXCEPT !.now = clock])
    /\ UNCHANGED <<items, clock, defaultExpiration, config, mtx, listener, ctxDone, reaper, cleanupInterval>>

\* faulty variant of addFound: the test is inverted
addFound_Inverted(m, now, k) == ~has(m, now, k)

\* faulty variant of addFound: presence is tested, not liveness
addFound_PresenceOnly(m, now, k) == k \in DOMAIN m

\* add(): if c.has(k) { return ErrItemAlreadyExists }; c.set(...)
addFound(m, now, k) == has(m, now, k)

AddLoad(p) ==
    /\ pc[p] = "add_load"
    /\ IF addFound(items, loc[p].now, call[p].k)
       THEN Return(p, [NoRes EXCEPT !.err = ErrItemAlreadyExists])
       ELSE /\ pc' = [pc EXCEPT ![p] = "set_opts"]
            /\ loc' = [loc EXCEPT ![p] = NoLoc]
            /\ UNCHANGED <<call, res>>
    /\ UNCHANGED <<items, clock, defaultExpiration, config, mtx, listener, ctxDone, reaper, cleanupInterval>>

ReplaceCall(p, k, v, opt) ==
    /\ Begin(p, "Replace", k, v, opt, "replace_load", [NoLoc EXCEPT !.now = clock])
    /\ UNCHANGED <<items, clock, defaultExpiration, config, mtx, listener, ctxDone, reaper, cleanupInterval>>

\* faulty variant of replaceMissing: the test is inverted
replaceMissing_Inverted(m, now, k) == has(m, now, k)

\* faulty variant of replaceMissing: presence is tested, not liveness
replaceMissing_PresenceOnly(m, now, k) == k \notin DOMAIN m

\* replace(): if !c.has(k) { return ErrItemNotFound }; c.set(...)
replaceMissing(m, now, k) == ~has(m, now, k)

ReplaceLoad(p) ==
    /\ pc[p] = "replace_load"
    /\ IF replaceMissing(items, loc[p].now, call[p].k)
       THEN Return(p, [NoRes EXCEPT !.err = ErrItemNotFound])
       ELSE /\ pc' = [pc EXCEPT ![p] = "set_opts"]
            /\ loc' = [loc EXCEPT ![p] = NoLoc]
            /\ UNCHANGED <<call, res>>
    /\ UNCHANGED <<items, clock, defaultExpiration, config, mtx, listener, ctxDone, reaper, cleanupInterval>>

\* delete(): c.items.Delete(k)
DeleteCall(p, k) ==
    /\ Single(p, "Delete", k, [NoRes EXCEPT !.err = ErrNil])
    /\ items' = Delete(items, k)
    /\ UNCHANGED <<clock, defaultExpiration, config, mtx, listener, ctxDone, reaper, cleanupInterval>>

\* Take: the clock is read, then items.LoadAndDelete(k) removes the entry in one
\* write scope; an entry that was expired is reported as not found
\* faulty variant of LoadAndDelete: the entry is left in the map
LoadAndDelete_NoDelete(m, k) == [out |-> Load(m, k).out, loaded |-> Load(m, k).ok, m |-> m]

\* faulty variant of LoadAndDelete: the whole map is emptied
LoadAndDelete_ClearsAll(m, k) == [out |-> Load(m, k).out, loaded |-> Load(m, k).ok, m |-> Clear(m)]

LoadAndDelete(m, k) == [out |-> Load(m, k).out, loaded |-> Load(m, k).ok, m |-> Delete(m, k)]

takeResult(l, now) ==
    IF l.loaded /\ ~isExpired(l.out, now)
    THEN [value |-> l.out.value, found |-> TRUE]
    ELSE [value |-> ZeroValue, found |-> FALSE]

TakeCall(p, k) ==
    /\ Begin(p, "Take", k, ZeroValue, OptNone, "take_load", [NoLoc EXCEPT !.now = clock])
    /\ UNCHANGED <<items, clock, defaultExpiration, config, mtx, listener, ctxDone, reaper, cleanupInterval>>

TakeLoad(p) ==
    /\ pc[p] = "take_load"
    /\ LET l == LoadAndDelete(items, call[p].k)
           r == takeResult(l, loc[p].now) IN
       /\ items' = l.m
       /\ Return(p, [NoRes EXCEPT !.err = ErrNil, !.value = r.value, !.found = r.found])
    /\ UNCHANGED <<clock, defaultExpiration, config, mtx, listener, ctxDone, reaper, cleanupInterval>>

\* deleteExpired(): now := c.nowNano(), then one With scope over the map
DeleteExpiredCall(p) ==
    /\ Begin(p, "DeleteExpired", 0, ZeroValue, OptNone, "dex_with",
             [NoLoc EXCEPT !.now = clock])
    /\ UNCHANGED <<items, clock, defaultExpiration, config, mtx, listener, ctxDone, reaper, cleanupInterval>>

DeleteExpiredWith(p) ==
    /\ pc[p] = "dex_with"
    /\ items' = deleteExpiredMap(items, loc[p].now)
    /\ Return(p, [NoRes EXCEPT !.err = ErrNil])
    /\ UNCHANGED <<clock, defaultExpiration, config, mtx, listener, ctxDone, reaper, cleanupInterval>>

\* deleteAll(): c.items.Clear()
DeleteAllCall(p) ==
    /\ Single(p, "DeleteAll", 0, [NoRes EXCEPT !.err = ErrNil])
    /\ items' = Clear(items)
    /\ UNCHANGED <<clock, defaultExpiration, config, mtx, listener, ctxDone, reaper, cleanupInterval>>

\* len(): c.items.Len()
LenCall(p) ==
    /\ Single(p, "Len", 0, [NoRes EXCEPT !.err = ErrNil, !.n = Len(items)])
    /\ UNCHANGED <<items, clock, defaultExpiration, config, mtx, listener, ctxDone, reaper, cleanupInterval>>

\* getItems(): now := c.nowNano(), then one RWith scope copying the live entries
ItemsCall(p) ==
    /\ Begin(p, "Items", 0, ZeroValue, OptNone, "items_rwith",
             [NoLoc EXCEPT !.now = clock])
    /\ UNCHANGED <<items, clock, defaultExpiration, config, mtx, listener, ctxDone, reaper, cleanupInterval>>

ItemsRWith(p) ==
    /\ pc[p] = "items_rwith"
    /\ Return(p, [NoRes EXCEPT !.err = ErrNil, !.out = getItemsMap(items, loc[p].now)])
    /\ UNCHANGED <<items, clock, defaultExpiration, config, mtx, listener, ctxDone, reaper, cleanupInterval>>

\* destroy(): c.cancel(), then c.deleteAll()
DestroyCall(p) ==
    /\ Begin(p, "Destroy", 0, ZeroValue, OptNone, "destroy_clear", NoLoc)
    /\ ctxDone' = TRUE
    /\ UNCHANGED <<items, clock, defaultExpiration, config, mtx, listener, reaper, cleanupInterval>>

DestroyClear(p) ==
    /\ pc[p] = "destroy_clear"
    /\ items' = Clear(items)
    /\ Return(p, [NoRes EXCEPT !.err = ErrNil])
    /\ UNCHANGED <<clock, defaultExpiration, config, mtx, listener, ctxDone, reaper, cleanupInterval>>

\* faulty variant of CancelContext: the cancellation clears the store
CancelContext_Clears ==
    /\ config.parent = "user"
    /\ ~ctxDone
    /\ ctxDone' = TRUE
    /\ items' = Clear(items)
    /\ UNCHANGED <<clock, defaultExpiration, config, mtx, listener, reaper, cleanupInterval,
                   pc, call, loc, res>>

\* the context given with WithContext is cancelled by its owner
CancelContext ==
    /\ config.parent = "user"
    /\ ~ctxDone
    /\ ctxDone' = TRUE
    /\ UNCHANGED <<items, clock, defaultExpiration, config, mtx, listener, reaper, cleanupInterval,
                   pc, call, loc, res>>

\* autoCleanup, top of the loop: c.clock.After(cleanupInterval) arms the timer
ReaperArm ==
    /\ reaper.pc = "start"
    /\ reaper' = [reaper EXCEPT !.pc = "wait", !.deadline = clock + cleanupInterval]
    /\ UNCHANGED <<items, clock, defaultExpiration, config, mtx, listener, ctxDone, cleanupInterval,
                   pc, call, loc, res>>

\* autoCleanup: select { case <-c.clock.After(cleanupInterval): case <-c.ctx.Done(): return }
\* When both channels are ready the select takes either one.
ReaperTick ==
    /\ reaper.pc = "wait"
    /\ clock >= reaper.deadline
    /\ reaper' = [reaper EXCEPT !.pc = "sweep", !.now = clock]
    /\ UNCHANGED <<items, clock, defaultExpiration, config, mtx, listener, ctxDone, cleanupInterval,
                   pc, call, loc, res>>

\* faulty variant of ReaperStop: the cancellation branch is never taken
ReaperStop_Never ==
    /\ FALSE
    /\ UNCHANGED vars
ReaperStop ==
    /\ reaper.pc = "wait"
    /\ ctxDone
    /\ reaper' = [reaper EXCEPT !.pc = "stopped"]
    /\ UNCHANGED <<items, clock, defaultExpiration, config, mtx, listener, ctxDone, cleanupInterval,
                   pc, call, loc, res>>

\* autoCleanup: c.deleteExpired() (its clock value was read after the tick)
ReaperSweep ==
    /\ reaper.pc = "sweep"
    /\ items' = deleteExpiredMap(items, reaper.now)
    /\ reaper' = [reaper EXCEPT !.pc = "notify", !.now = 0]
    /\ UNCHANGED <<clock, defaultExpiration, config, mtx, listener, ctxDone, cleanupInterval,
                   pc, call, loc, res>>

\* faulty variant of ReaperNotify: a plain send, which waits for a receiver
ReaperNotify_Blocking ==
    /\ reaper.pc = "notify"
    /\ listener = "waiting"
    /\ reaper' = [reaper EXCEPT !.pc = "start", !.deadline = 0]
    /\ listener' = "notified"
    /\ UNCHANGED <<items, clock, defaultExpiration, config, mtx, ctxDone, cleanupInterval,
                   pc, call, loc, res>>

\* autoCleanup: the non-blocking send on cleanupEvent (the channel is
\* unbuffered: the send case is taken when a receiver is blocked on it, the
\* default case otherwise), then back to the top
ReaperNotify ==
    /\ reaper.pc = "notify"
    /\ reaper' = [reaper EXCEPT !.pc = "start", !.deadline = 0]
    /\ listener' = IF listener = "waiting" THEN "notified" ELSE listener
    /\ UNCHANGED <<items, clock, defaultExpiration, config, mtx, ctxDone, cleanupInterval,
                   pc, call, loc, res>>

\* a goroutine outside the cache blocks in a receive from the cleanupEvent
\* channel
ListenerReceive ==
    /\ listener \in {"none", "notified"}
    /\ listener' = "waiting"
    /\ UNCHANGED <<items, clock, defaultExpiration, config, mtx, ctxDone, reaper, cleanupInterval,
                   pc, call, loc, res>>

\* ------------------------------------------------------------ set_cache.go
\* SetCache[K] wraps a Cache[K, struct{}]; struct{}{} is its own zero value
Unit == ZeroValue

SetCacheAdd(p, k, opt) == AddCall(p, k, Unit, opt)

SetCacheSet(p, k, opt) == SetCall(p, k, Unit, opt)

SetCacheReplace(p, k, opt) == ReplaceCall(p, k, Unit, opt)

SetCacheDelete(p, k) == DeleteCall(p, k)

SetCacheDeleteAll(p) == DeleteAllCall(p)

SetCacheDeleteExpired(p) == DeleteExpiredCall(p)

SetCacheHas(p, k) == GetCall(p, k)

SetCacheLen(p) == LenCall(p)

\* GetExpiration: _, expiration, found = s.c.getWithExpiration(k)
SetCacheGetExpiration(p, k) ==
    /\ Begin(p, "GetExpiration", k, Unit, OptNone, "getexp_load",
             [NoLoc EXCEPT !.now = clock])
    /\ UNCHANGED <<items, clock, defaultExpiration, config, mtx, listener, ctxDone, reaper, cleanupInterval>>

\* faulty variant of SetCacheGetExpirationLoad: the stored expiration is
\* returned without looking at the clock
SetCacheGetExpirationLoad_Stored(p) ==
    /\ pc[p] = "getexp_load"
    /\ LET l == Load(items, call[p].k) IN
       Return(p, [NoRes EXCEPT !.err = ErrNil, !.found = l.ok,
                               !.expiration = IF l.ok /\ l.out.expiration > 0
                                              THEN Expiration(l.out) ELSE ZeroTime])
    /\ UNCHANGED <<items, clock, defaultExpiration, config, mtx, listener, ctxDone, reaper, cleanupInterval>>

SetCacheGetExpirationLoad(p) ==
    /\ pc[p] = "getexp_load"
    /\ LET r == getWithExpiration(items, loc[p].now, call[p].k) IN
       Return(p, [NoRes EXCEPT !.err = ErrNil, !.found = r.found,
                               !.expiration = r.expiration])
    /\ UNCHANGED <<items, clock, defaultExpiration, config, mtx, listener, ctxDone, reaper, cleanupInterval>>

\* ----------------------------------------- internal/mtx scoped access
\* the operations of RWMtxMap and the scopes of RWMtx, statement by statement:
\* the lock is taken, the callback runs, the deferred unlock releases it
WriteOps == {"Store", "Delete", "LoadAndDelete", "Clear", "WithE"}
ReadOps == {"Load", "Len", "RWithE"}

MtxBegin(p, op, k, v, opt) ==
    /\ Begin(p, op, k, v, opt, IF op \in WriteOps THEN "with_lock" ELSE "rwith_rlock", NoLoc)
    /\ UNCHANGED <<items, clock, defaultExpiration, config, mtx, listener, ctxDone, reaper, cleanupInterval>>

MapStore(p, k, v) == MtxBegin(p, "Store", k, v, OptNone)

MapLoad(p, k) == MtxBegin(p, "Load", k, ZeroValue, OptNone)

MapLoadAndDelete(p, k) == MtxBegin(p, "LoadAndDelete", k, ZeroValue, OptNone)

MapDelete(p, k) == MtxBegin(p, "Delete", k, ZeroValue, OptNone)

MapLen(p) == MtxBegin(p, "Len", 0, ZeroValue, OptNone)

MapClear(p) == MtxBegin(p, "Clear", 0, ZeroValue, OptNone)

\* WithE / RWithE called with a callback that returns nil (e = 0) or an error
WithE(p, e) == MtxBegin(p, "WithE", 0, ZeroValue, ClbReturns(e))

RWithE(p, e) == MtxBegin(p, "RWithE", 0, ZeroValue, ClbReturns(e))

\* WithE: m.Lock()
WithLock(p) ==
    /\ pc[p] = "with_lock"
    /\ canLock(mtx)
    /\ mtx' = Lock(mtx, p)
    /\ pc' = [pc EXCEPT ![p] = "with_clb"]
    /\ UNCHANGED <<items, clock, defaultExpiration, config, listener, ctxDone, reaper, cleanupInterval,
                   call, loc, res>>

\* WithE: clb(&m.v), the callback of Store, Delete, Clear, of LoadAndDelete
\* (its first statement) or of the caller
WithClb(p) ==
    /\ pc[p] = "with_clb"
    /\ pc' = [pc EXCEPT ![p] = IF call[p].op = "LoadAndDelete" THEN "with_clb_delete"
                                 ELSE "with_unlock"]
    /\ items' = CASE call[p].op = "Store" ->
                        Store(items, call[p].k, Item(call[p].v, NoExpiration))
                  [] call[p].op = "Delete" -> Delete(items, call[p].k)
                  [] call[p].op = "Clear" -> Clear(items)
                  [] OTHER -> items
    /\ res' = [res EXCEPT ![p] =
                  CASE call[p].op = "LoadAndDelete" ->
                          [NoRes EXCEPT !.err = ErrNil,
                                        !.value = Load(items, call[p].k).out.value,
                                        !.found = Load(items, call[p].k).ok]
                    [] call[p].op = "WithE" -> [NoRes EXCEPT !.err = ClbError(call[p].opt)]
                    [] OTHER -> [NoRes EXCEPT !.err = ErrNil]]
    /\ UNCHANGED <<clock, defaultExpiration, config, mtx, listener, ctxDone, reaper, cleanupInterval,
                   call, loc>>

\* LoadAndDelete's callback, second statement: delete(*m, k)
WithClbDelete(p) ==
    /\ pc[p] = "with_clb_delete"
    /\ pc' = [pc EXCEPT ![p] = "with_unlock"]
    /\ items' = Delete(items, call[p].k)
    /\ UNCHANGED <<clock, defaultExpiration, config, mtx, listener, ctxDone, reaper, cleanupInterval,
                   call, loc, res>>

\* faulty variant of WithUnlock: the lock is kept when the callback failed
WithUnlock_KeptOnError(p) ==
    /\ pc[p] = "with_unlock"
    /\ mtx' = IF res[p].err = ErrNil THEN Unlock(mtx, p) ELSE mtx
    /\ Return(p, res[p])
    /\ UNCHANGED <<items, clock, defaultExpiration, config, listener, ctxDone, reaper, cleanupInterval>>

\* WithE: the deferred m.Unlock(), and the return of the callback's error and
\* of the operation's results
WithUnlock(p) ==
    /\ pc[p] = "with_unlock"
    /\ mtx' = Unlock(mtx, p)
    /\ Return(p, res[p])
    /\ UNCHANGED <<items, clock, defaultExpiration, config, listener, ctxDone, reaper, cleanupInterval>>

\* RWithE: m.RLock()
RWithRLock(p) ==
    /\ pc[p] = "rwith_rlock"
    /\ canRLock(mtx)
    /\ mtx' = RLock(mtx, p)
    /\ pc' = [pc EXCEPT ![p] = "rwith_clb"]
    /\ UNCHANGED <<items, clock, defaultExpiration, config, listener, ctxDone, reaper, cleanupInterval,
                   call, loc, res>>

\* RWithE: clb(m.v), the callback of Load, of Len or of the caller
RWithClb(p) ==
    /\ pc[p] = "rwith_clb"
    /\ pc' = [pc EXCEPT ![p] = "rwith_runlock"]
    /\ res' = [res EXCEPT ![p] =
                  CASE call[p].op = "Load" ->
                          [NoRes EXCEPT !.err = ErrNil,
                                        !.value = Load(items, call[p].k).out.value,
                                        !.found = Load(items, call[p].k).ok]
                    [] call[p].op = "Len" -> [NoRes EXCEPT !.err = ErrNil, !.n = Len(items)]
                    [] OTHER -> [NoRes EXCEPT !.err = ClbError(call[p].opt)]]
    /\ UNCHANGED <<items, clock, defaultExpiration, config, mtx, listener, ctxDone, reaper, cleanupInterval,
                   call, loc>>

\* RWithE: the deferred m.RUnlock(), and the return
RWithRUnlock(p) ==
    /\ pc[p] = "rwith_runlock"
    /\ mtx' = RUnlock(mtx, p)
    /\ Return(p, res[p])
    /\ UNCHANGED <<items, clock, defaultExpiration, config, listener, ctxDone, reaper, cleanupInterval>>

MtxOps(p, K, V) ==
    \/ \E k \in K, v \in V : MapStore(p, k, v)
    \/ \E k \in K : MapLoad(p, k)
    \/ \E k \in K : MapLoadAndDelete(p, k)
    \/ \E k \in K : MapDelete(p, k)
    \/ MapLen(p)
    \/ MapClear(p)
    \/ \E e \in {0, 1} : WithE(p, e)
    \/ \E e \in {0, 1} : RWithE(p, e)
    \/ WithLock(p)
    \/ WithClb(p)
    \/ WithClbDelete(p)
    \/ WithUnlock(p)
    \/ RWithRLock(p)
    \/ RWithClb(p)
    \/ RWithRUnlock(p)

\* ------------------------------------------------------ specifications
Reads(p, K) ==
    \/ \E k \in K : GetCall(p, k)
    \/ GetLoad(p)

Writes(p, K, V, O) ==
    \/ \E k \in K, v \in V, opt \in O : SetCall(p, k, v, opt)
    \/ \E k \in K, v \in V, opt \in O : AddCall(p, k, v, opt)
    \/ AddLoad(p)
    \/ \E k \in K, v \in V, opt \in O : ReplaceCall(p, k, v, opt)
    \/ ReplaceLoad(p)
    \/ SetOpts(p)
    \/ SetNow(p)
    \/ SetStore(p)

Removals(p, K) ==
    \/ \E k \in K : DeleteCall(p, k)
    \/ \E k \in K : TakeCall(p, k)
    \/ TakeLoad(p)
    \/ DeleteAllCall(p)

Sweeps(p) ==
    \/ DeleteExpiredCall(p)
    \/ DeleteExpiredWith(p)

Cleanup ==
    \/ ReaperArm
    \/ ReaperTick
    \/ ReaperSweep
    \/ ReaperNotify

\* Spec: one caller using every data operation, the clock and the cleanup
\* goroutine
SeqOptions == {OptNone, OptNoExpire} \cup {OptExpireIn(d) : d \in 1..(MaxTTL - 1)}

Next ==
    \/ Advance
    \/ Cleanup
    \/ Reads(1, Keys)
    \/ Writes(1, Keys, Values, SeqOptions)
    \/ Removals(1, Keys)
    \/ Sweeps(1)

Spec == Init /\ [][Next]_vars

\* SpecTTL: one caller writing with every kind of item option
TTLValues == {1}

NextTTL ==
    \/ Advance
    \/ Reads(1, Keys)
    \/ Writes(1, Keys, TTLValues, ItemOptions \cup {OptExpireIn(DefaultExpiration)})

SpecTTL == Init /\ [][NextTTL]_vars

\* SpecLife: one caller, the clock, the cleanup goroutine and the lifecycle
\* (the context is cancelled, the cache is destroyed)
LifeValues == {1}
LifeOptions == {OptNone, OptNoExpire}

NextLife ==
    \/ Advance
    \/ Cleanup
    \/ CancelContext
    \/ ReaperStop
    \/ \E k \in Keys, v \in LifeValues, opt \in LifeOptions : SetCall(1, k, v, opt)
    \/ SetOpts(1)
    \/ SetNow(1)
    \/ SetStore(1)
    \/ Removals(1, Keys)
    \/ Sweeps(1)
    \/ LenCall(1)
    \/ ItemsCall(1)
    \/ ItemsRWith(1)
    \/ DestroyCall(1)
    \/ DestroyClear(1)

SpecLife == Init /\ [][NextLife]_vars

\* SpecConc: several callers on one key, and the clock
ConcKeys == {1}
ConcOptions == {OptNone, OptNoExpire}

NextConc ==
    \/ Advance
    \/ \E p \in Procs : Writes(p, ConcKeys, Values, ConcOptions)
    \/ \E p \in Procs : Removals(p, ConcKeys)

SpecConc == Init /\ [][NextConc]_vars

\* SpecZero: a cache built with New(0), one caller writing without override
\* or with NoExpire, reading and sweeping
InitZero ==
    /\ items = EmptyMap
    /\ clock = 1
    /\ defaultExpiration = 0
    /\ config = newConfig(CleanupNotGiven, "user")
    /\ mtx = NewRWMtx
    /\ listener = "none"
    /\ ctxDone = FALSE
    /\ cleanupInterval = newCleanupInterval(0)
    /\ reaper = newReaper(newCleanupInterval(0))
    /\ pc = [p \in Procs |-> "idle"]
    /\ call = [p \in Procs |-> NoCall]
    /\ loc = [p \in Procs |-> NoLoc]
    /\ res = [p \in Procs |-> NoRes]

ZeroValues == {1}
ZeroOptions == {OptNone, OptNoExpire}

NextZero ==
    \/ Advance
    \/ Reads(1, Keys)
    \/ Writes(1, Keys, ZeroValues, ZeroOptions)
    \/ Sweeps(1)

SpecZero == InitZero /\ [][NextZero]_vars

\* SpecSnap: a writer (Set, DeleteAll) and a concurrent reader (Items, Len)
SnapValues == {1}
SnapOptions == {OptNone, OptNoExpire}

NextSnap ==
    \/ Advance
    \/ \E k \in Keys, v \in SnapValues, opt \in SnapOptions : SetCall(1, k, v, opt)
    \/ SetOpts(1)
    \/ SetNow(1)
    \/ SetStore(1)
    \/ DeleteAllCall(1)
    \/ ItemsCall(NumProcs)
    \/ ItemsRWith(NumProcs)
    \/ LenCall(NumProcs)

SpecSnap == Init /\ [][NextSnap]_vars

\* SpecCfg: caches built with every combination of the CleanupInterval and
\* WithContext options; one caller writes, counts and destroys
CfgIntervals == {-1, 0, 1, 2}
CfgCleanups == {CleanupNotGiven} \cup {CleanupGiven(d) : d \in CfgIntervals}
CfgContexts == {"absent", "nil", "user"}

InitCfg ==
    /\ items = EmptyMap
    /\ clock = 1
    /\ defaultExpiration = MaxTTL
    /\ \E co \in CfgCleanups, xo \in CfgContexts :
          /\ config = newConfig(co, xo)
          /\ cleanupInterval = newCleanupInterval(IF co.given THEN co.d ELSE 0)
          /\ reaper = newReaper(newCleanupInterval(IF co.given THEN co.d ELSE 0))
    /\ mtx = NewRWMtx
    /\ listener = "none"
    /\ ctxDone = FALSE
    /\ pc = [p \in Procs |-> "idle"]
    /\ call = [p \in Procs |-> NoCall]
    /\ loc = [p \in Procs |-> NoLoc]
    /\ res = [p \in Procs |-> NoRes]

CfgValues == {1}
CfgOptions == {OptNone}

NextCfg ==
    \/ Advance
    \/ Cleanup
    \/ CancelContext
    \/ ReaperStop
    \/ \E k \in Keys, v \in CfgValues, opt \in CfgOptions : SetCall(1, k, v, opt)
    \/ SetOpts(1)
    \/ SetNow(1)
    \/ SetStore(1)
    \/ LenCall(1)
    \/ DestroyCall(1)
    \/ DestroyClear(1)

SpecCfg == InitCfg /\ [][NextCfg]_vars

\* SpecReap: the default cache with one caller that writes, counts and
\* destroys but never calls DeleteExpired; the cleanup goroutine is scheduled
\* fairly, and a select with the cancellation ready does not ignore it for ever
ReapValues == {1}
ReapOptions == {OptNone}

NextReap ==
    \/ Advance
    \/ Cleanup
    \/ CancelContext
    \/ ReaperStop
    \/ \E k \in Keys, v \in ReapValues, opt \in ReapOptions : SetCall(1, k, v, opt)
    \/ SetOpts(1)
    \/ SetNow(1)
    \/ SetStore(1)
    \/ LenCall(1)
    \/ DestroyCall(1)
    \/ DestroyClear(1)

SpecReap == Init /\ [][NextReap]_vars /\ WF_vars(Cleanup) /\ SF_vars(ReaperStop)

\* SpecSet: one caller using every operation of the SetCache adapter
NextSet ==
    \/ Advance
    \/ \E k \in Keys, opt \in SeqOptions : SetCacheAdd(1, k, opt)
    \/ \E k \in Keys, opt \in SeqOptions : SetCacheSet(1, k, opt)
    \/ \E k \in Keys, opt \in SeqOptions : SetCacheReplace(1, k, opt)
    \/ AddLoad(1)
    \/ ReplaceLoad(1)
    \/ SetOpts(1)
    \/ SetNow(1)
    \/ SetStore(1)
    \/ \E k \in Keys : SetCacheDelete(1, k)
    \/ SetCacheDeleteAll(1)
    \/ SetCacheDeleteExpired(1)
    \/ DeleteExpiredWith(1)
    \/ \E k \in Keys : SetCacheHas(1, k)
    \/ GetLoad(1)
    \/ SetCacheLen(1)
    \/ \E k \in Keys : SetCacheGetExpiration(1, k)
    \/ SetCacheGetExpirationLoad(1)

SpecSet == Init /\ [][NextSet]_vars

\* SpecFrame: SpecLife with the keyed reads, so that every read and every
\* removing operation of the cache takes part
NextFrame ==
    \/ NextLife
    \/ Reads(1, Keys)

SpecFrame == Init /\ [][NextFrame]_vars

\* SpecSweep: a writer on one key, a caller of DeleteExpired, the cleanup
\* goroutine and the clock
SweepValues == {1}

NextSweep ==
    \/ Advance
    \/ Cleanup
    \/ Writes(1, ConcKeys, SweepValues, ConcOptions)
    \/ Sweeps(NumProcs)

SpecSweep == Init /\ [][NextSweep]_vars

\* SpecMtx: several goroutines using one RWMtxMap through its operations and
\* through WithE / RWithE
MtxKeys == Keys
MtxValues == Values

NextMtx == \E p \in Procs : MtxOps(p, MtxKeys, MtxValues)

SpecMtx == Init /\ [][NextMtx]_vars

\* SpecNotify: SpecReap with a goroutine that receives the cleanup
\* notifications, at times or never
NextNotify ==
    \/ NextReap
    \/ ListenerReceive

SpecNotify == Init /\ [][NextNotify]_vars /\ WF_vars(Cleanup) /\ SF_vars(ReaperStop)

\* ------------------------------------------------------------ properties
\* An entry is live at instant t when it is present and either permanent or
\* its deadline has not passed at t.
LiveAt(m, k, t) == k \in DOMAIN m /\ (m[k].expiration <= 0 \/ t <= m[k].expiration)

\* caller p takes the step that leaves position at
Leaves(p, at) == pc[p] = at /\ pc'[p] # at

Storing(p) == pc[p] \in {"set_opts", "set_now", "set_store"}

\* C1 (SpecConc): Add is an atomic insert-if-absent.  When an Add on k has
\* returned ok and the entry it stored is still live, no other Add on k is on
\* its way to store as well: of the Adds racing for a key that was not live,
\* exactly one returns ok and the others return ErrItemAlreadyExists.
C1_AddExactlyOneWins ==
    \A p, q \in Procs :
        (/\ p # q
         /\ res[q].op = "Add" /\ res[q].err = ErrNil
         /\ call[p].op = "Add" /\ call[p].k = res[q].k
         /\ LiveAt(items, res[q].k, clock)
         /\ items[res[q].k].value = res[q].v)
        => ~Storing(p)

\* C2 (Spec): right after Set(k, v, ExpireIn(d)) with d > 0 stored its entry,
\* the clock not having moved since the Set read it, Get(k) returns (v, true),
\* whatever was stored under k before.
C2_SetThenGet ==
    [][\A p \in Procs :
        (/\ Leaves(p, "set_store")
         /\ call[p].op = "Set"
         /\ call[p].opt.kind = "ExpireIn" /\ call[p].opt.arg > 0
         /\ clock = loc[p].now)
        => get(items', clock', call[p].k) = [value |-> call[p].v, found |-> TRUE]]_vars

C2_Witness ==
    \E p \in Procs :
        /\ pc[p] = "idle" /\ res[p].op = "Set" /\ res[p].opt.kind = "ExpireIn"
        /\ res[p].v = 2
        /\ res[p].k \in DOMAIN items
        /\ items[res[p].k] = Item(2, clock + res[p].opt.arg)
        /\ clock > 1

\* C3 as stated (Spec): once the clock has advanced by exactly d after
\* Set(k, v, ExpireIn(d)), with no write in between, Has(k) is false.
C3_InclusiveBoundary ==
    [][\A p \in Procs :
        (/\ Leaves(p, "set_store")
         /\ call[p].op = "Set"
         /\ call[p].opt.kind = "ExpireIn" /\ call[p].opt.arg > 0)
        => ~has(items', loc[p].now + call[p].opt.arg, call[p].k)]_vars

\* C3 amended (Spec): after Set(k, v, ExpireIn(d)) read the clock at t, with no
\* write in between, Has(k) is true at every instant up to and including t + d
\* and false at every instant after t + d.
C3_ExclusiveBoundary ==
    [][\A p \in Procs :
        (/\ Leaves(p, "set_store")
         /\ call[p].op = "Set"
         /\ call[p].opt.kind = "ExpireIn" /\ call[p].opt.arg > 0)
        => \A c \in loc[p].now .. (MaxClock + MaxTTL + 1) :
               has(items', c, call[p].k) <=> (c <= loc[p].now + call[p].opt.arg)]_vars

\* a Set with ExpireIn(d) has returned, the clock has advanced by exactly d
\* since, and Has(k) is still true
C3_Witness ==
    \E p \in Procs :
        /\ pc[p] = "idle" /\ res[p].op = "Set" /\ res[p].opt.kind = "ExpireIn"
        /\ res[p].opt.arg > 0
        /\ res[p].k \in DOMAIN items
        /\ items[res[p].k] = Item(res[p].v, clock)
        /\ has(items, clock, res[p].k)

\* C4 (Spec): an Add whose check finds the key live returns
\* ErrItemAlreadyExists and changes nothing: every entry keeps its value and
\* its expiration.
C4_AddOnLiveKey ==
    [][\A p \in Procs :
        (Leaves(p, "add_load") /\ LiveAt(items, call[p].k, clock))
        => /\ pc'[p] = "idle"
           /\ res'[p].op = "Add" /\ res'[p].err = ErrItemAlreadyExists
           /\ items' = items]_vars

C4_Witness ==
    \E p \in Procs :
        /\ pc[p] = "idle" /\ res[p].op = "Add" /\ res[p].err = ErrItemAlreadyExists
        /\ LiveAt(items, res[p].k, clock)
        /\ items[res[p].k].value # res[p].v
        /\ items[res[p].k].expiration <= 0

\* C5 (Spec): a Replace on a key that is absent, or present with a deadline
\* that had passed when the call read the clock, returns ErrItemNotFound and
\* changes nothing: an absent key stays absent, an expired entry stays stored.
C5_ReplaceOnMissingKey ==
    [][\A p \in Procs :
        (Leaves(p, "replace_load") /\ ~LiveAt(items, call[p].k, loc[p].now))
        => /\ pc'[p] = "idle"
           /\ res'[p].op = "Replace" /\ res'[p].err = ErrItemNotFound
           /\ items' = items]_vars

\* Replace has just failed on an entry that is stored but expired
C5_Witness ==
    \E p \in Procs :
        /\ pc[p] = "idle" /\ res[p].op = "Replace" /\ res[p].err = ErrItemNotFound
        /\ res[p].k \in DOMAIN items
        /\ ~LiveAt(items, res[p].k, clock)

\* the deadline a write that read the clock at t must store for its option
ExpectedDeadline(opt, t) ==
    IF opt.kind = "ExpireIn" /\ opt.arg # 0 THEN t + opt.arg ELSE t + defaultExpiration

\* C6 (Spec): a Replace on a live key goes on to store and returns ok; the
\* entry it stores holds the new value and a deadline computed from the clock
\* at the time of the Replace (the override if given, else the default TTL),
\* or no deadline for NoExpire: nothing of the old entry is kept.
C6_ReplaceOnLiveKey ==
    [][\A p \in Procs :
        /\ (Leaves(p, "replace_load") /\ LiveAt(items, call[p].k, clock))
           => (pc'[p] = "set_opts" /\ items' = items)
        /\ (Leaves(p, "set_now") /\ call[p].op = "Replace") => loc'[p].now = clock
        /\ (Leaves(p, "set_store") /\ call[p].op = "Replace")
           => /\ pc'[p] = "idle"
              /\ res'[p].op = "Replace" /\ res'[p].err = ErrNil
              /\ call[p].k \in DOMAIN items'
              /\ items'[call[p].k].value = call[p].v
              /\ IF call[p].opt.kind = "NoExpire"
                 THEN items'[call[p].k].expiration <= 0
                 ELSE items'[call[p].k].expiration
                          = ExpectedDeadline(call[p].opt, loc[p].now)]_vars

\* a Replace with an override has just replaced, later than the first instant
C6_Witness ==
    \E p \in Procs :
        /\ pc[p] = "idle" /\ res[p].op = "Replace" /\ res[p].err = ErrNil
        /\ res[p].opt.kind = "ExpireIn"
        /\ clock > 1
        /\ res[p].k \in DOMAIN items
        /\ items[res[p].k] = Item(res[p].v, clock + res[p].opt.arg)

C9_PermanentEntry ==
    [][\A k \in Keys :
        /\ \A p \in Procs :
              (Leaves(p, "set_store") /\ call[p].k = k /\ call[p].opt.kind = "NoExpire")
              => (k \in DOMAIN items' /\ items'[k].expiration <= 0)
        /\ (k \in DOMAIN items /\ items[k].expiration <= 0)
           => /\ \A c \in clock .. (MaxClock + MaxTTL + 1) : has(items, c, k)
              /\ \/ (k \in DOMAIN items' /\ items'[k] = items[k])
                 \/ \E p \in Procs :
                       \/ DeleteCall(p, k)
                       \/ (TakeLoad(p) /\ call[p].k = k)
                       \/ DeleteAllCall(p)
                       \/ DestroyClear(p)
                       \/ (SetStore(p) /\ call[p].k = k)]_vars

\* at the last instant, after a sweep of the cleanup goroutine that removed an
\* expired entry, a permanent entry is still stored
C9_Witness ==
    /\ clock = MaxClock
    /\ reaper.pc = "notify"
    /\ Len(items) = 1
    /\ \E k \in DOMAIN items : items[k].expiration <= 0 /\ has(items, clock, k)
    /\ res[1].op = "Set" /\ res[1].opt = OptNone

\* C10 (SpecTTL): a write (Set, Add, Replace) that read the clock at t stores,
\* with no option or with ExpireIn(0), the deadline t + D for the default TTL
\* D, and with ExpireIn(d), d > 0, the deadline t + d whatever D is; the key
\* is then found before that deadline and not found after it, and no other
\* key's entry is touched.
C10_TTLResolution ==
    [][\A p \in Procs :
        Leaves(p, "set_store")
        => LET k == call[p].k
               t == loc[p].now
               o == call[p].opt
               ttl == IF o.kind = "ExpireIn" /\ o.arg > 0 THEN o.arg
                      ELSE defaultExpiration
           IN /\ (o.kind = "none" \/ (o.kind = "ExpireIn" /\ o.arg >= 0))
                 => /\ k \in DOMAIN items'
                    /\ items'[k].expiration = t + ttl
                    /\ \A c \in t .. (MaxClock + MaxTTL + 1) :
                          /\ c < t + ttl => has(items', c, k)
                          /\ c > t + ttl => ~has(items', c, k)
              /\ \A j \in Keys \ {k} :
                    /\ j \in DOMAIN items' <=> j \in DOMAIN items
                    /\ j \in DOMAIN items => items'[j] = items[j]]_vars

\* one key written with the default TTL and another, at the same instant,
\* with ExpireIn(d) for a d shorter than the default
C10_Witness ==
    \E p \in Procs, j \in Keys :
        /\ pc[p] = "idle" /\ res[p].op \in {"Set", "Add", "Replace"}
        /\ res[p].opt.kind = "ExpireIn" /\ res[p].opt.arg > 0
        /\ res[p].opt.arg < defaultExpiration
        /\ res[p].k \in DOMAIN items /\ j \in DOMAIN items /\ j # res[p].k
        /\ items[res[p].k].expiration = clock + res[p].opt.arg
        /\ items[j].expiration = clock + defaultExpiration

\* C11 (SpecTTL): a write with ExpireAt(t), the clock reading the same when the
\* option is applied and when the deadline is computed, stores the deadline t
\* for every t, t at or before the current instant included; the key is then
\* found before t and not found after t.
C11_ExpireAtExact ==
    [][\A p \in Procs :
        (/\ Leaves(p, "set_store")
         /\ call[p].opt.kind = "ExpireAt"
         /\ loc[p].d = call[p].opt.arg - loc[p].now)
        => /\ call[p].k \in DOMAIN items'
           /\ items'[call[p].k].expiration = call[p].opt.arg
           /\ \A c \in loc[p].now .. (MaxClock + MaxTTL + 1) :
                 /\ c < call[p].opt.arg => has(items', c, call[p].k)
                 /\ c > call[p].opt.arg => ~has(items', c, call[p].k)]_vars

\* C12 (SpecZero): with a default TTL of zero, a write without override that
\* read the clock at t stores the deadline t, which is not the permanent
\* sentinel, and the key is not found at any instant after t.
C12_ZeroTTL ==
    [][\A p \in Procs :
        (/\ Leaves(p, "set_store")
         /\ defaultExpiration = 0
         /\ call[p].opt.kind = "none")
        => /\ call[p].k \in DOMAIN items'
           /\ items'[call[p].k].expiration = loc[p].now
           /\ items'[call[p].k].expiration > 0
           /\ \A c \in (loc[p].now + 1) .. (MaxClock + MaxTTL + 1) :
                 ~has(items', c, call[p].k)]_vars

\* with a default TTL of zero, a read at a later instant has just missed an
\* entry that is still stored with the instant of its write as deadline
C12_Witness ==
    \E p \in Procs :
        /\ defaultExpiration = 0
        /\ pc[p] = "idle" /\ res[p].op = "GetWithExpiration" /\ ~res[p].found
        /\ res[p].k \in DOMAIN items
        /\ items[res[p].k].expiration > 0
        /\ items[res[p].k].expiration = clock - 1

\* the deadline of the stored entry m[k] lies before instant t
DeadlinePassed(m, k, t) == k \in DOMAIN m /\ m[k].expiration > 0 /\ m[k].expiration < t

\* C13 (SpecLife): Items() returns exactly the live entries.  For the clock
\* value t the call read, a key is in the returned map iff Has(k) is true at
\* t; it is mapped to the stored value and expiration; and no entry whose
\* deadline lies before t is returned, swept or not.
C13_ItemsLiveOnly ==
    [][\A p \in Procs :
        Leaves(p, "items_rwith")
        => /\ res'[p].op = "Items"
           /\ DOMAIN res'[p].out \subseteq Keys
           /\ \A k \in Keys :
                 /\ k \in DOMAIN res'[p].out <=> has(items, loc[p].now, k)
                 /\ k \in DOMAIN res'[p].out
                    => /\ res'[p].out[k] = items[k]
                       /\ ~DeadlinePassed(items, k, loc[p].now)]_vars

\* Items() has just returned one entry while a second, expired one is still
\* stored
C13_Witness ==
    \E p \in Procs :
        /\ pc[p] = "idle" /\ res[p].op = "Items"
        /\ Cardinality(DOMAIN res[p].out) = 1
        /\ Cardinality(DOMAIN items) = 2
        /\ \E k \in DOMAIN items : DeadlinePassed(items, k, clock) /\ k \notin DOMAIN res[p].out

\* C14 (SpecLife): Len() returns the number of stored entries, expired ones
\* included, which is never less than the number of keys Has() finds; a sweep
\* of the cleanup goroutine removes every entry whose deadline lies before the
\* clock value the sweep read, so that Len() no longer counts them.
C14_LenCountsPresent ==
    [][/\ \A p \in Procs :
             LenCall(p)
             => /\ res'[p].n = Cardinality({k \in Keys : k \in DOMAIN items})
                /\ res'[p].n >= Cardinality({k \in Keys : has(items, clock, k)})
       /\ ReaperSweep
          => /\ \A k \in Keys : DeadlinePassed(items, k, reaper.now) => k \notin DOMAIN items'
             /\ DOMAIN items' \subseteq DOMAIN items]_vars

\* Len() has just returned 1, the one stored entry is expired (Has is false)
\* and the cleanup goroutine is still waiting for its interval
C14_Witness ==
    \E p \in Procs :
        /\ pc[p] = "idle" /\ res[p].op = "Len" /\ res[p].n = 1
        /\ Cardinality(DOMAIN items) = 1
        /\ \A k \in DOMAIN items : ~has(items, clock, k)
        /\ reaper.pc = "wait"

\* every read gives the same result on m1 and on m2 at instant c
ReadsAgree(m1, m2, c) ==
    /\ \A k \in Keys : getWithExpiration(m1, c, k) = getWithExpiration(m2, c, k)
    /\ getItemsMap(m1, c) = getItemsMap(m2, c)

\* C15 (SpecLife): physical eviction is not observable by reads.  A sweep, by
\* DeleteExpired or by the cleanup goroutine, that read the clock at t leaves
\* the result of Get, Has, GetWithExpiration and Items unchanged for every key
\* at every instant from t on.
C15_SweepUnobservable ==
    [][/\ \A p \in Procs :
             Leaves(p, "dex_with")
             => \A c \in loc[p].now .. (MaxClock + MaxTTL + 1) : ReadsAgree(items, items', c)
       /\ (reaper.pc = "sweep" /\ reaper'.pc # "sweep")
          => \A c \in reaper.now .. (MaxClock + MaxTTL + 1) : ReadsAgree(items, items', c)]_vars

\* Len() returned the full count, the caller did nothing since, and a sweep of
\* the cleanup goroutine has just evicted an entry
C15_Witness ==
    /\ pc[1] = "idle" /\ res[1].op = "Len" /\ res[1].n = NumKeys
    /\ Cardinality(DOMAIN items) < NumKeys
    /\ reaper.pc = "notify"

\* C16 (SpecTTL): a write that read the clock at t0 and resolved a TTL d other
\* than NoExpiration stores the deadline t0 + d, and a write with NoExpire
\* stores no deadline; GetWithExpiration(k) that read the clock at t returns
\* (v, the stored deadline as an instant, true) for an entry whose deadline
\* has not passed at t, (v, zero instant, true) for a permanent entry, and
\* (zero value, zero instant, false) for an absent or expired key.
C16_GetWithExpiration ==
    [][\A p \in Procs :
        /\ (Leaves(p, "set_store") /\ call[p].opt.kind \in {"none", "NoExpire", "ExpireIn"})
           => /\ call[p].k \in DOMAIN items'
              /\ items'[call[p].k].value = call[p].v
              /\ items'[call[p].k].expiration =
                    IF call[p].opt.kind = "NoExpire" THEN NoExpiration
                    ELSE ExpectedDeadline(call[p].opt, loc[p].now)
        /\ Leaves(p, "get_load")
           => LET k == call[p].k
                  t == loc[p].now
                  r == res'[p]
              IN /\ r.op = "GetWithExpiration"
                 /\ (k \notin DOMAIN items \/ DeadlinePassed(items, k, t))
                    => (r.value = ZeroValue /\ r.expiration = ZeroTime /\ ~r.found)
                 /\ (k \in DOMAIN items /\ items[k].expiration <= 0)
                    => (r.value = items[k].value /\ r.expiration = ZeroTime /\ r.found)
                 /\ (k \in DOMAIN items /\ items[k].expiration >= t /\ items[k].expiration > 0)
                    => /\ r.value = items[k].value /\ r.found
                       /\ r.expiration = [isZero |-> FALSE, unixNano |-> items[k].expiration]]_vars

\* GetWithExpiration has just returned the deadline now + D of an entry
\* written at this instant with the default TTL, while the other key holds a
\* permanent entry
C16_Witness ==
    \E p \in Procs, j \in Keys :
        /\ pc[p] = "idle" /\ res[p].op = "GetWithExpiration" /\ res[p].found
        /\ res[p].value = 1
        /\ res[p].expiration = [isZero |-> FALSE, unixNano |-> clock + defaultExpiration]
        /\ clock > 1
        /\ j # res[p].k /\ j \in DOMAIN items /\ items[j].expiration = NoExpiration

\* C17 (SpecLife): Delete(k) never fails and is idempotent.  On an absent key
\* the store is unchanged; on a stored key, live or expired, exactly that
\* entry is removed, every other entry is unchanged, Has(k) is false at every
\* instant and the number of entries is one less; deleting k again changes
\* nothing.
C17_DeleteIdempotent ==
    [][\A p \in Procs, k \in Keys :
        DeleteCall(p, k)
        => /\ res'[p].op = "Delete" /\ res'[p].err = ErrNil
           /\ k \notin DOMAIN items => items' = items
           /\ k \in DOMAIN items
              => Cardinality(DOMAIN items') = Cardinality(DOMAIN items) - 1
           /\ DOMAIN items' = DOMAIN items \ {k}
           /\ \A j \in DOMAIN items' : items'[j] = items[j]
           /\ \A c \in clock .. (MaxClock + MaxTTL + 1) : ~has(items', c, k)
           /\ Delete(items', k) = items']_vars

\* Delete has just removed one of two stored entries: the other one, an
\* expired entry, is still stored
C17_Witness ==
    \E p \in Procs, j \in Keys :
        /\ pc[p] = "idle" /\ res[p].op = "Delete" /\ res[p].err = ErrNil
        /\ res[p].k \notin DOMAIN items
        /\ j # res[p].k /\ DeadlinePassed(items, j, clock)

\* C18 (SpecLife): DeleteExpired that read the clock at t removes, in one
\* step, every entry whose deadline lies before t and nothing else: permanent
\* entries and entries whose deadline has not passed stay with value and
\* expiration unchanged; when the clock still reads t, the number of stored
\* entries then equals the number of entries Items() returns.
C18_DeleteExpiredExact ==
    [][\A p \in Procs :
        Leaves(p, "dex_with")
        => /\ pc'[p] = "idle" /\ res'[p].op = "DeleteExpired"
           /\ DOMAIN items' = {k \in DOMAIN items : ~DeadlinePassed(items, k, loc[p].now)}
           /\ \A k \in DOMAIN items' : items'[k] = items[k]
           /\ \A k \in DOMAIN items : items[k].expiration <= 0 => k \in DOMAIN items'
           /\ clock = loc[p].now
              => Cardinality(DOMAIN items')
                    = Cardinality(DOMAIN getItemsMap(items', clock'))]_vars

\* DeleteExpired is at its scope with one expired and one permanent entry
\* stored
C18_Witness ==
    \E p \in Procs, i, j \in Keys :
        /\ pc[p] = "dex_with"
        /\ DeadlinePassed(items, i, loc[p].now)
        /\ j \in DOMAIN items /\ items[j].expiration = NoExpiration

\* C19 (SpecSnap): DeleteAll empties the store in one step, taken while a
\* reader may be between its clock read and its snapshot: after the step no
\* key is stored, permanent entries included, the number of entries is 0 and
\* Has(k) is false for every key at every instant; a snapshot is taken of the
\* store before the step or after it, never of a partially cleared one.
C19_DeleteAllClears ==
    [][\A p \in Procs :
        /\ DeleteAllCall(p)
           => /\ res'[p].op = "DeleteAll" /\ res'[p].err = ErrNil
              /\ DOMAIN items' = {}
              /\ Cardinality(DOMAIN items') = 0
              /\ \A k \in Keys, c \in clock .. (MaxClock + MaxTTL + 1) : ~has(items', c, k)
              /\ \A q \in Procs \ {p} : pc'[q] = pc[q] /\ res'[q] = res[q]
        /\ Leaves(p, "items_rwith")
           => /\ items' = items
              /\ \A k \in DOMAIN items :
                    ~DeadlinePassed(items, k, loc[p].now) => k \in DOMAIN res'[p].out]_vars

\* the reader's snapshot held every key, one of them permanent; the writer,
\* whose only removing operation is DeleteAll, has returned from DeleteAll
\* and the store is empty
C19_Witness ==
    \E p, q \in Procs :
        /\ pc[p] = "idle" /\ res[p].op = "DeleteAll"
        /\ pc[q] = "idle" /\ res[q].op = "Items"
        /\ DOMAIN res[q].out = Keys
        /\ \E k \in Keys : res[q].out[k].expiration = NoExpiration
        /\ DOMAIN items = {}

\* C20 (SpecLife): Destroy cancels the context and then clears the store
\* before it returns: at its return the context is cancelled, no key is
\* stored and Has(k) is false for every key at every instant.
C20_DestroyClears ==
    [][\A p \in Procs :
        /\ DestroyCall(p) => ctxDone'
        /\ Leaves(p, "destroy_clear")
           => /\ pc'[p] = "idle" /\ res'[p].op = "Destroy"
              /\ ctxDone /\ ctxDone'
              /\ DOMAIN items' = {}
              /\ \A k \in Keys, c \in clock .. (MaxClock + MaxTTL + 1) : ~has(items', c, k)]_vars

\* Destroy has cancelled the context, which was not cancelled before, and is
\* about to clear a store holding a permanent and another entry
C20_Witness ==
    \E p \in Procs :
        /\ pc[p] = "destroy_clear"
        /\ ctxDone
        /\ reaper.pc # "stopped"
        /\ Cardinality(DOMAIN items) = NumKeys
        /\ \E k \in DOMAIN items : items[k].expiration = NoExpiration

\* C21 (SpecCfg): a cache built with CleanupInterval(0) has no cleanup
\* goroutine: none is started, so no background sweep ever occurs.
C21_ZeroIntervalNoReaper ==
    (config.cleanup.given /\ config.cleanup.d = 0) => reaper.pc = "off"

\* C22 (SpecReap): without a CleanupInterval option the cleanup goroutine runs
\* with the default interval: every timer it arms is due one default interval
\* later; each of its sweeps removes every entry whose deadline lies before
\* the clock value it read; an entry that is expired when an interval has
\* elapsed is removed (or overwritten) without any caller invoking
\* DeleteExpired, unless the lifecycle is cancelled; and after a sweep the
\* goroutine waits for the next interval.
C22_BackgroundReclaim ==
    /\ [](~config.cleanup.given
            => (cleanupInterval = DefaultCleanupInterval /\ reaper.pc # "off"))
    /\ [][ReaperArm => reaper'.deadline = clock + DefaultCleanupInterval]_vars
    /\ [][ReaperSweep
            => \A k \in Keys : DeadlinePassed(items, k, reaper.now) => k \notin DOMAIN items']_vars
    /\ \A k \in Keys :
          (DeadlinePassed(items, k, clock) /\ reaper.pc = "wait" /\ clock >= reaper.deadline)
              ~> (~DeadlinePassed(items, k, clock) \/ ctxDone)
    /\ (reaper.pc = "notify") ~> (reaper.pc = "wait")

\* the cleanup goroutine has just finished a sweep for a second or later
\* interval, the store is empty, the lifecycle is not cancelled, and the
\* caller's last operation was a Len() that still counted an entry
C22_Witness ==
    /\ reaper.pc = "notify"
    /\ reaper.deadline > 1 + DefaultCleanupInterval
    /\ ~ctxDone
    /\ DOMAIN items = {}
    /\ pc[1] = "idle" /\ res[1].op = "Len" /\ res[1].n >= 1

\* C23 (SpecReap): a cancellation that fires before, or exactly when, the
\* interval elapses wins: the cleanup goroutine does not take the interval
\* branch at the instant the interval elapses when the lifecycle is cancelled
\* by then.
C23_CancelWinsAtBoundary ==
    [][(ReaperTick /\ clock = reaper.deadline) => ~ctxDone]_vars

\* C24 (SpecReap): once the lifecycle is cancelled the cleanup goroutine
\* eventually terminates, whether or not the clock advances; the cancellation
\* is never undone; once terminated the goroutine stays terminated and the
\* store is never swept by it again.
C24_ReaperTerminates ==
    /\ (ctxDone /\ reaper.pc # "off") ~> (reaper.pc = "stopped")
    /\ [][ctxDone => ctxDone']_vars
    /\ [][reaper.pc = "stopped" => (reaper' = reaper /\ ~ReaperSweep)]_vars

\* the cleanup goroutine has terminated; an interval has elapsed since and an
\* expired entry is still stored
C24_Witness ==
    /\ reaper.pc = "stopped"
    /\ ctxDone
    /\ clock >= reaper.deadline + DefaultCleanupInterval
    /\ \E k \in Keys : DeadlinePassed(items, k, clock)

\* C25 (SpecLife): a step that cancels the context without Destroy removes
\* nothing: every entry keeps its value and expiration and the number of
\* entries is unchanged; nor does the cleanup goroutine's observing the
\* cancellation change the store.
C25_CancelKeepsEntries ==
    [][/\ (~ctxDone /\ ctxDone' /\ pc' = pc)
          => /\ items' = items
             /\ Cardinality(DOMAIN items') = Cardinality(DOMAIN items)
       /\ (reaper.pc = "wait" /\ reaper'.pc = "stopped") => items' = items]_vars

\* the context is cancelled, the cleanup goroutine has stopped, and Len() has
\* just counted every key
C25_Witness ==
    /\ ctxDone
    /\ reaper.pc = "stopped"
    /\ pc[1] = "idle" /\ res[1].op = "Len" /\ res[1].n = NumKeys
    /\ Cardinality(DOMAIN items) = NumKeys

\* C26 (SpecCfg): a nil context given at construction is never replaced by
\* context.Background(): no cache exists that was built with WithContext(nil)
\* and runs under the default context.
C26_NilContextRejected ==
    config.ctx = "nil" => config.parent # "Background"
C28_IsExpiredStrict ==
    \A k \in DOMAIN items :
        LET it == items[k] IN
        /\ \A ts \in 0 .. (MaxClock + MaxTTL + 1) :
              isExpired(it, ts) <=> (it.expiration > 0 /\ it.expiration < ts)
        /\ it.expiration > 0
           => /\ \A ts \in 0 .. it.expiration : ~isExpired(it, ts)
              /\ ~isExpired(it, it.expiration)
              /\ isExpired(it, it.expiration + 1)
        /\ it.expiration <= 0
           => \A ts \in 0 .. (MaxClock + MaxTTL + 1) : ~isExpired(it, ts)

\* at the very instant of an entry's deadline Items() has just returned it,
\* next to a permanent entry
C28_Witness ==
    \E p \in Procs, k, j \in Keys :
        /\ pc[p] = "idle" /\ res[p].op = "Items"
        /\ k \in DOMAIN res[p].out /\ res[p].out[k].expiration = clock
        /\ k \in DOMAIN items /\ items[k].expiration = clock
        /\ j \in DOMAIN res[p].out /\ res[p].out[j].expiration = NoExpiration

\* C29 (SpecConc): Replace's check and write are one atomic step: Replace
\* never writes an entry for a key that has been removed, so at the step in
\* which a Replace stores, its key is stored.
C29_ReplaceNeverResurrects ==
    [][\A p \in Procs :
        (Leaves(p, "set_store") /\ call[p].op = "Replace")
        => call[p].k \in DOMAIN items]_vars

\* C30 (Spec): Add succeeds exactly when the key is not live.  An Add whose
\* check finds the key absent, or stored with a deadline before the clock
\* value the check read, goes on to store, and only such an Add does; its
\* store writes the new value with a deadline resolved from the call's option
\* at the clock value the write read (none for NoExpire), returns ok, and
\* Has(k) is true at that instant.
C30_AddOnDeadKey ==
    [][\A p \in Procs :
        /\ (Leaves(p, "add_load") /\ ~LiveAt(items, call[p].k, loc[p].now))
           => (pc'[p] = "set_opts" /\ items' = items)
        /\ (Leaves(p, "add_load") /\ pc'[p] = "set_opts")
           => ~LiveAt(items, call[p].k, loc[p].now)
        /\ (Leaves(p, "set_store") /\ call[p].op = "Add")
           => /\ pc'[p] = "idle"
              /\ res'[p].op = "Add" /\ res'[p].err = ErrNil
              /\ call[p].k \in DOMAIN items'
              /\ items'[call[p].k].value = call[p].v
              /\ IF call[p].opt.kind = "NoExpire"
                 THEN items'[call[p].k].expiration <= 0
                 ELSE items'[call[p].k].expiration
                          = ExpectedDeadline(call[p].opt, loc[p].now)
              /\ has(items', loc[p].now, call[p].k)]_vars

\* an Add is about to store over an entry that is still stored and was
\* expired when the Add's write read the clock
C30_Witness ==
    \E p \in Procs :
        /\ pc[p] = "set_store" /\ call[p].op = "Add"
        /\ DeadlinePassed(items, call[p].k, loc[p].now)
        /\ items[call[p].k].value # call[p].v

\* caller p completes the single-scope call op in this step
Completes(p, op) == pc[p] = "idle" /\ pc'[p] = "idle" /\ res'[p] # res[p] /\ res'[p].op = op

\* C31 (SpecFrame): reads never mutate.  A step of Get / Has /
\* GetWithExpiration, of Items or of Len, and a step of the clock, leaves the
\* stored map (the keys present, every value, every expiration) as it was,
\* also when the key read is expired; and whenever a key stops being present
\* the step is one of Delete, Take, DeleteAll, Destroy, DeleteExpired or the
\* sweep of the cleanup goroutine.
C31_ReadsNeverMutate ==
    [][/\ \A p \in Procs :
             \/ Leaves(p, "get_load")
             \/ Leaves(p, "items_rwith")
             \/ Completes(p, "Len")
             \/ (pc[p] = "idle" /\ pc'[p] \in {"get_load", "items_rwith"})
             => items' = items
       /\ clock' # clock => items' = items
       /\ (DOMAIN items \ DOMAIN items') # {}
          => \/ \E p \in Procs :
                   \/ Completes(p, "Delete")
                   \/ Completes(p, "DeleteAll")
                   \/ Leaves(p, "take_load")
                   \/ Leaves(p, "destroy_clear")
                   \/ Leaves(p, "dex_with")
             \/ (reaper.pc = "sweep" /\ reaper'.pc # "sweep")]_vars

\* a read has just reported an expired key as not found, and the entry is
\* still stored
C31_Witness ==
    \E k \in Keys :
        /\ pc[1] = "idle"
        /\ res[1].op = "GetWithExpiration"
        /\ res[1].k = k
        /\ ~res[1].found
        /\ DeadlinePassed(items, k, clock)

\* C32 (SpecSweep): a sweep removes only entries that are expired and present.
\* Every key that DeleteExpired's scope or the sweep of the cleanup goroutine
\* drops held, at the instant of the removal, an entry with a deadline that had
\* passed; no permanent and no live entry is dropped, and every entry that
\* stays is unchanged, whatever the clock and a concurrent writer of the key do
\* between the sweep's clock read and its scope.
C32_SweepOnlyExpired ==
    [][(\/ \E p \in Procs : Leaves(p, "dex_with")
        \/ (reaper.pc = "sweep" /\ reaper'.pc # "sweep"))
       => /\ DOMAIN items' \subseteq DOMAIN items
          /\ \A k \in DOMAIN items' : items'[k] = items[k]
          /\ \A k \in DOMAIN items \ DOMAIN items' :
                /\ DeadlinePassed(items, k, clock)
                /\ ~LiveAt(items, k, clock)]_vars

\* DeleteExpired has read the clock, the clock has moved on, and the writer,
\* reading the clock after the sweep did, has stored an entry that is live
\* now and that the sweep is about to examine
C32_Witness ==
    \E k \in ConcKeys :
        /\ pc[NumProcs] = "dex_with"
        /\ pc[1] = "idle"
        /\ res[1].op \in {"Set", "Add", "Replace"}
        /\ res[1].err = ErrNil
        /\ k \in DOMAIN items
        /\ items[k].expiration > 0
        /\ items[k].expiration - defaultExpiration > loc[NumProcs].now
        /\ LiveAt(items, k, clock)

\* the (value, expiration) pair that the write of caller p has constructed
PairOf(p) ==
    Item(call[p].v,
         IF call[p].opt.kind = "NoExpire" THEN NoExpiration
         ELSE ExpectedDeadline(call[p].opt, loc[p].now))

\* C33 (SpecConc): writes to one key are linearized without partial update.
\* An entry appears or changes only in the store step of a Set / Add / Replace
\* on that key, and after that step the entry is exactly the value and the
\* expiration of that call, whatever entry another call had stored: the last
\* store to take the write lock determines the whole entry.
C33_NoPartialUpdate ==
    [][/\ \A p \in Procs :
             Leaves(p, "set_store") => items'[call[p].k] = PairOf(p)
       /\ \A k \in Keys :
             (k \in DOMAIN items' /\ (k \notin DOMAIN items \/ items'[k] # items[k]))
             => \E p \in Procs :
                   Leaves(p, "set_store") /\ call[p].k = k /\ items'[k] = PairOf(p)]_vars

\* two writes on one key that differ in value and in expiration have both
\* returned, the second over the entry of the first; the entry is the pair of
\* one of them
C33_Witness ==
    \E p, q \in Procs, k \in ConcKeys :
        /\ p # q
        /\ pc[p] = "idle" /\ pc[q] = "idle"
        /\ res[p].op \in {"Set", "Add", "Replace"} /\ res[p].err = ErrNil /\ res[p].k = k
        /\ res[q].op \in {"Set", "Add", "Replace"} /\ res[q].err = ErrNil /\ res[q].k = k
        /\ res[p].v # res[q].v
        /\ res[p].opt = OptNoExpire /\ res[q].opt = OptNone
        /\ k \in DOMAIN items
        /\ items[k] = Item(res[q].v, items[k].expiration)
        /\ items[k].expiration > 0

\* the positions at which a goroutine is inside a write scope, and inside a
\* read scope, of the guarded value
InWriteScope(p) == pc[p] \in {"with_clb", "with_clb_delete", "with_unlock"}
InReadScope(p) == pc[p] \in {"rwith_clb", "rwith_runlock"}

\* C34 (SpecMtx): mutual exclusion of the guarded store.  While a goroutine
\* is inside a write scope no other goroutine is inside a write scope or a
\* read scope (a reader or a writer that arrives meanwhile is still waiting
\* for the lock); read scopes exclude nothing but write scopes.
C34_MutualExclusion ==
    \A p, q \in Procs :
        (p # q /\ InWriteScope(p)) => (~InWriteScope(q) /\ ~InReadScope(q))

\* two read callbacks are executing at the same time
C34_Witness ==
    \E p, q \in Procs :
        /\ p # q
        /\ pc[p] = "rwith_clb"
        /\ pc[q] = "rwith_clb"

\* C35 (SpecMtx): scoped access releases the lock on every exit path.  When
\* WithE or RWithE returns, the error it returns is the one its callback
\* returned, nil or not, and the goroutine no longer holds the lock in either
\* mode; a goroutine outside a scope holds nothing, so once every scope has
\* been left the lock can be taken again.
C35_ReleasedOnEveryExit ==
    /\ [][\A p \in Procs :
            (Leaves(p, "with_unlock") \/ Leaves(p, "rwith_runlock"))
            => /\ pc'[p] = "idle"
               /\ call[p].op \in {"WithE", "RWithE"} => res'[p].err = ClbError(call[p].opt)
               /\ mtx'.writer # p
               /\ p \notin mtx'.readers]_vars
    /\ [](\A p \in Procs :
            (~InWriteScope(p) /\ ~InReadScope(p)) => (mtx.writer # p /\ p \notin mtx.readers))
    /\ []((\A p \in Procs : ~InWriteScope(p) /\ ~InReadScope(p)) => canLock(mtx))

\* a WithE whose callback failed has returned that error, and another
\* goroutine has since entered a write scope
C35_Witness ==
    \E p, q \in Procs :
        /\ p # q
        /\ pc[p] = "idle"
        /\ res[p].op = "WithE"
        /\ res[p].err = ErrFail
        /\ pc[q] = "with_clb"
        /\ mtx.writer = q

\* what a plain map gives for Load(k)
PlainLoad(m, k) ==
    IF k \in DOMAIN m THEN [value |-> m[k].value, found |-> TRUE]
    ELSE [value |-> ZeroValue, found |-> FALSE]

\* C36 (SpecMtx): the operations of the guarded map are atomic operations of a
\* sequential map.  From the statement of a callback that reads or writes the
\* map until the scope is left, the map is as that operation saw or made it,
\* whatever the other goroutines do: Load's result is the entry stored (found)
\* or the zero value (not found), LoadAndDelete's result is the entry that was
\* there and the key is absent, Store's entry is there, Delete's key is
\* absent, Len's result is the number of keys, and after Clear Len is 0; and
\* the map changes only by a step of the goroutine inside a write scope.  The
\* scopes, in the order in which they took the lock, are the sequential order.
C36_AtomicSequentialMap ==
    /\ [](\A p \in Procs :
            /\ (pc[p] = "with_unlock" /\ call[p].op = "Store")
               => PlainLoad(items, call[p].k) = [value |-> call[p].v, found |-> TRUE]
            /\ (pc[p] = "with_unlock" /\ call[p].op \in {"Delete", "LoadAndDelete"})
               => call[p].k \notin DOMAIN items
            /\ (pc[p] = "with_unlock" /\ call[p].op = "Clear")
               => Len(items) = 0
            /\ (pc[p] = "with_clb_delete")
               => PlainLoad(items, call[p].k) = [value |-> res[p].value, found |-> res[p].found]
            /\ (pc[p] = "rwith_runlock" /\ call[p].op = "Load")
               => PlainLoad(items, call[p].k) = [value |-> res[p].value, found |-> res[p].found]
            /\ (pc[p] = "rwith_runlock" /\ call[p].op = "Len")
               => res[p].n = Len(items))
    /\ [][items' # items => \E p \in Procs : InWriteScope(p) /\ pc'[p] # pc[p]]_vars

\* LoadAndDelete has returned a stored entry, and a Load of that key by
\* another goroutine is inside its scope and finds nothing
C36_Witness ==
    \E p, q \in Procs :
        /\ p # q
        /\ pc[p] = "idle"
        /\ res[p].op = "LoadAndDelete"
        /\ res[p].found
        /\ res[p].value = 2
        /\ pc[q] = "rwith_runlock"
        /\ call[q].op = "Load"
        /\ call[q].k = res[p].k
        /\ ~res[q].found

\* C37 (SpecNotify): the cleanup notification never blocks the cleanup
\* goroutine.  The send is attempted only after a sweep has removed the
\* entries expired at the clock value it read; the notification is delivered
\* only in that step and only to a receiver already waiting, and is dropped
\* otherwise; with or without a receiver the goroutine goes on to wait for the
\* next interval, takes an elapsed interval (unless the lifecycle is
\* cancelled), and terminates after a cancellation.
C37_NotifyNeverBlocks ==
    /\ [][(reaper'.pc = "notify" /\ reaper.pc # "notify")
            => (reaper.pc = "sweep" /\ items' = deleteExpiredMap(items, reaper.now))]_vars
    /\ [][(listener' = "notified" /\ listener # "notified")
            => (listener = "waiting" /\ reaper.pc = "notify" /\ reaper'.pc = "start")]_vars
    /\ [][(reaper.pc = "notify" /\ reaper'.pc # "notify")
            => (reaper'.pc = "start"
                /\ (listener # "waiting" => listener' = listener)
                /\ items' = items)]_vars
    /\ (reaper.pc = "notify" /\ listener # "waiting") ~> (reaper.pc = "wait")
    /\ (reaper.pc = "wait" /\ clock >= reaper.deadline) ~> (reaper.pc = "notify" \/ ctxDone)
    /\ (ctxDone /\ reaper.pc = "notify") ~> (reaper.pc = "stopped")

\* a notification has been delivered to a waiting receiver after a sweep that
\* emptied the store (the caller's last Len() still counted an entry), and
\* the goroutine is waiting for the next interval
C37_Witness ==
    /\ listener = "notified"
    /\ reaper.pc = "wait"
    /\ ~ctxDone
    /\ DOMAIN items = {}
    /\ pc[1] = "idle" /\ res[1].op = "Len" /\ res[1].n >= 1

SameExcept(m1, m2, k) ==
    \A j \in Keys \ {k} :
        /\ j \in DOMAIN m1 <=> j \in DOMAIN m2
        /\ j \in DOMAIN m1 => m2[j] = m1[j]

\* C39 (Spec): single-key operations have a single-key footprint.  Every step
\* of a Set, Add, Replace, Delete or Take on key k, from the call to the
\* return, with a nil error or not, leaves every other key as it was:
\* present or absent, with the same value and the same expiration.
C39_SingleKeyFootprint ==
    [][\A p \in Procs :
        /\ (pc[p] = "idle" /\ pc'[p] # "idle"
                /\ call'[p].op \in {"Set", "Add", "Replace", "Take"})
           => SameExcept(items, items', call'[p].k)
        /\ (pc[p] # "idle" /\ pc'[p] # pc[p]
                /\ call[p].op \in {"Set", "Add", "Replace", "Take"})
           => SameExcept(items, items', call[p].k)
        /\ Completes(p, "Delete")
           => SameExcept(items, items', res'[p].k)]_vars

\* a Replace on an absent key has returned its error, and the other key
\* still holds its entry
C39_Witness ==
    \E k, j \in Keys :
        /\ k # j
        /\ pc[1] = "idle"
        /\ res[1].op = "Replace" /\ res[1].err = ErrItemNotFound /\ res[1].k = k
        /\ k \notin DOMAIN items
        /\ j \in DOMAIN items

\* C40 (Spec): expiry is monotone.  A key for which Has is false now stays so
\* at every later instant while the store is as it is, and no step makes Has
\* true for it again except the store step of a Set, Add or Replace on that
\* key: not a step of the clock, of DeleteExpired, of the cleanup goroutine,
\* or of an operation on another key.
C40_ExpiryMonotone ==
    /\ [](\A k \in Keys :
            ~has(items, clock, k) => \A t \in clock..(MaxClock + 1) : ~has(items, t, k))
    /\ [][\A k \in Keys :
            (~has(items, clock, k) /\ has(items', clock', k))
            => \E p \in Procs : Leaves(p, "set_store") /\ call[p].k = k]_vars

\* a key was read as not found; its deadline now lies two ticks or more back,
\* the entry is still stored, and the other key is live
C40_Witness ==
    \E k, j \in Keys :
        /\ k # j
        /\ pc[1] = "idle"
        /\ res[1].op = "GetWithExpiration" /\ res[1].k = k /\ ~res[1].found
        /\ DeadlinePassed(items, k, clock - 1)
        /\ has(items, clock, j)

====
